---- MODULE Spec2Model ----
(***************************************************************************)
(* Model of src/main.py: the Book record, its dict/JSON conversions, and   *)
(* the Library class (load_books, save_books, add_book, remove_book,       *)
(* search_books, display_books, update_status).                            *)
(*                                                                         *)
(* Text (Python str) is modelled as a sequence of one-character strings,   *)
(* so that lower(), str() of an integer and the substring operator `in`    *)
(* are computed character by character.  The two Cyrillic status literals  *)
(* of the source are transliterated.                                       *)
(***************************************************************************)
EXTENDS Integers, Sequences, FiniteSets, TLC

VARIABLES
    books,        \* Library.books: the in-memory list of Book objects
    disk,         \* the file named Library.filename
    lastOp,       \* the last Library method called: name, arguments, what the caller got
    write,        \* what save_books did during the last call
    writeFailures, \* number of storage writes that have failed in a row
    fromEmpty,    \* the Library was constructed with an empty list
    createCalls,  \* number of add_book calls since construction
    removeCalled  \* remove_book has been called since construction

vars == <<books, disk, lastOp, write, writeFailures, fromEmpty, createCalls, removeCalled>>

-----------------------------------------------------------------------------
(* Bounds of the model: add_book calls per run, the longest list add_book   *)
(* is called on plus one, failed storage writes in a row.                   *)

MaxCreates == 2
MaxBooks == 3
MaxWriteFailures == 1

-----------------------------------------------------------------------------
(* Values *)

Available == "V nalichii"
CheckedOut == "Vydana"
Lost == "Poteryana"

StatusDomain == {Available, CheckedOut}
Statuses == {CheckedOut, Lost}

Inputs ==
    { [title |-> <<"A", "b">>, author |-> <<"c", "A">>, year |-> 2020],
      [title |-> <<"b">>, author |-> <<"B", "a">>, year |-> 1999] }

Fields == {"title", "author", "year"}

SearchInputs ==
    { << <<>>, "title">>, << <<>>, "author">>, << <<>>, "year">>,
      << <<"B">>, "title">>, << <<"a">>, "author">>, << <<"0", "2">>, "year">> }

-----------------------------------------------------------------------------
(* Python built-ins used by the source *)

LowerChar(c) ==
    CASE c = "A" -> "a"
      [] c = "B" -> "b"
      [] c = "C" -> "c"
      [] OTHER -> c

lower(s) == [i \in 1..Len(s) |-> LowerChar(s[i])]

DigitChar(d) == <<"0", "1", "2", "3", "4", "5", "6", "7", "8", "9">>[d + 1]

RECURSIVE Digits(_)
Digits(n) ==
    IF n < 10 THEN <<DigitChar(n)>>
    ELSE Append(Digits(n \div 10), DigitChar(n % 10))

str_int(n) == IF n < 0 THEN <<"-">> \o Digits(-n) ELSE Digits(n)

DigitValue(c) == CHOOSE d \in 0..9 : DigitChar(d) = c

RECURSIVE ParseDigits(_)
ParseDigits(s) ==
    IF Len(s) = 0 THEN 0
    ELSE 10 * ParseDigits(SubSeq(s, 1, Len(s) - 1)) + DigitValue(s[Len(s)])

int_str(s) ==
    IF s[1] = "-" THEN 0 - ParseDigits(SubSeq(s, 2, Len(s))) ELSE ParseDigits(s)

MatchAt(q, text, i) == \A j \in 1..Len(q) : text[i + j - 1] = q[j]

RECURSIVE Find(_, _, _)
Find(q, text, i) ==
    IF i + Len(q) - 1 > Len(text) THEN FALSE
    ELSE IF MatchAt(q, text, i) THEN TRUE
    ELSE Find(q, text, i + 1)

In(q, text) == Find(q, text, 1)

-----------------------------------------------------------------------------
(* class Book *)

Book(id, title, author, year, status) ==
    [id |-> id, title |-> title, author |-> author, year |-> year, status |-> status]

to_dict(book) ==
    [k \in {"id", "title", "author", "year", "status"} |->
        CASE k = "id" -> book.id
          [] k = "title" -> book.title
          [] k = "author" -> book.author
          [] k = "year" -> book.year
          [] k = "status" -> book.status]

from_dict_swapped(data) ==
    Book(data["id"], data["author"], data["title"], data["year"], data["status"])

from_dict(data) ==
    Book(data["id"], data["title"], data["author"], data["year"], data["status"])

-----------------------------------------------------------------------------
(* json.dump / json.load: a JSON object is its members in the order written, *)
(* a number is its decimal text.                                             *)

json_dump_dict(d) ==
    << <<"id", str_int(d["id"])>>,
       <<"title", d["title"]>>,
       <<"author", d["author"]>>,
       <<"year", str_int(d["year"])>>,
       <<"status", d["status"]>> >>

Member(obj, key) == obj[CHOOSE i \in 1..Len(obj) : obj[i][1] = key][2]

json_load_dict(obj) ==
    [k \in {obj[i][1] : i \in 1..Len(obj)} |->
        IF k \in {"id", "year"} THEN int_str(Member(obj, k)) ELSE Member(obj, k)]

json_dump(dicts) == [i \in 1..Len(dicts) |-> json_dump_dict(dicts[i])]

json_load(doc) == [i \in 1..Len(doc) |-> json_load_dict(doc[i])]

-----------------------------------------------------------------------------
(* class Library *)

File(doc) == [state |-> "json", doc |-> doc]
NoFile == [state |-> "missing", doc |-> <<>>]
BrokenFile == [state |-> "corrupt", doc |-> <<>>]

load_books(file) ==
    IF file.state = "missing" THEN <<>>
    ELSE LET book_dicts == json_load(file.doc)
         IN  [i \in 1..Len(book_dicts) |-> from_dict(book_dicts[i])]

SavedFile(bs) == File(json_dump([i \in 1..Len(bs) |-> to_dict(bs[i])]))

save_books(bs) ==
    \/ /\ disk' = SavedFile(bs)
       /\ write' = "ok"
       /\ writeFailures' = 0
    \/ /\ writeFailures < MaxWriteFailures
       /\ disk' = disk
       /\ write' = "failed"
       /\ writeFailures' = writeFailures + 1
    \/ /\ writeFailures < MaxWriteFailures
       /\ disk' = BrokenFile
       /\ write' = "failed"
       /\ writeFailures' = writeFailures + 1

(* What the caller of a mutating method gets: the message built after       *)
(* save_books returned, or the exception save_books let through.            *)
Outcome_swallowed(message) == message

Outcome(message) == IF write' = "ok" THEN message ELSE <<"OSError">>

NewId_count(bs) == Len(bs) + 1

NewId_same(bs) == IF bs # <<>> THEN bs[Len(bs)].id ELSE 1

NewId(bs) == IF bs # <<>> THEN bs[Len(bs)].id + 1 ELSE 1

add_book(title, author, year) ==
    /\ createCalls < MaxCreates
    /\ Len(books) < MaxBooks
    /\ LET new_id == NewId(books)
           new_book == Book(new_id, title, author, year, Available)
       IN  /\ books' = Append(books, new_book)
           /\ save_books(books')
           /\ lastOp' = [name |-> "add_book",
                         args |-> <<title, author, year>>,
                         ret |-> Outcome(<<"added", title, new_id>>)]
    /\ createCalls' = createCalls + 1
    /\ UNCHANGED <<fromEmpty, removeCalled>>

Without(bs, book_id) == SelectSeq(bs, LAMBDA book : book.id # book_id)

remove_book_always_saves(book_id) ==
    /\ books' = Without(books, book_id)
    /\ save_books(books')
    /\ lastOp' = [name |-> "remove_book",
                  args |-> <<book_id>>,
                  ret |-> IF Len(books') < Len(books)
                          THEN Outcome(<<"removed", book_id>>)
                          ELSE Outcome(<<"not found">>)]
    /\ removeCalled' = TRUE
    /\ UNCHANGED <<fromEmpty, createCalls>>

remove_book(book_id) ==
    /\ LET before_remove == Len(books)
       IN  /\ books' = Without(books, book_id)
           /\ IF Len(books') < before_remove
              THEN /\ save_books(books')
                   /\ lastOp' = [name |-> "remove_book",
                                 args |-> <<book_id>>,
                                 ret |-> Outcome(<<"removed", book_id>>)]
              ELSE /\ lastOp' = [name |-> "remove_book",
                                 args |-> <<book_id>>,
                                 ret |-> <<"not found">>]
                   /\ write' = "none"
                   /\ UNCHANGED <<disk, writeFailures>>
    /\ removeCalled' = TRUE
    /\ UNCHANGED <<fromEmpty, createCalls>>

FieldText(book, field) ==
    CASE field = "title" -> book.title
      [] field = "author" -> book.author
      [] field = "year" -> str_int(book.year)

Matches(book, query, field) == In(lower(query), lower(FieldText(book, field)))

search_books_query_case(bs, query, field) ==
    SelectSeq(bs, LAMBDA book : In(query, lower(FieldText(book, field))))

search_books(bs, query, field) ==
    SelectSeq(bs, LAMBDA book : Matches(book, query, field))

SearchBooks(query, field) ==
    /\ lastOp' = [name |-> "search_books",
                  args |-> <<query, field>>,
                  ret |-> <<"results", search_books(books, query, field)>>]
    /\ write' = "none"
    /\ UNCHANGED <<books, disk, writeFailures, fromEmpty, createCalls, removeCalled>>

display_books ==
    /\ lastOp' = [name |-> "display_books", args |-> <<>>, ret |-> <<"results", books>>]
    /\ write' = "none"
    /\ UNCHANGED <<books, disk, writeFailures, fromEmpty, createCalls, removeCalled>>

FirstWithId(bs, book_id) ==
    CHOOSE i \in 1..Len(bs) :
        /\ bs[i].id = book_id
        /\ \A j \in 1..(i - 1) : bs[j].id # book_id

SetStatus_every_match(bs, book_id, status) ==
    [i \in 1..Len(bs) |->
        IF bs[i].id = book_id THEN [bs[i] EXCEPT !.status = status] ELSE bs[i]]

SetStatus(bs, book_id, status) ==
    [bs EXCEPT ![FirstWithId(bs, book_id)].status = status]

update_status(book_id, status) ==
    /\ IF \E i \in 1..Len(books) : books[i].id = book_id
       THEN /\ books' = SetStatus(books, book_id, status)
            /\ save_books(books')
            /\ lastOp' = [name |-> "update_status",
                          args |-> <<book_id, status>>,
                          ret |-> Outcome(<<"updated", book_id, status>>)]
       ELSE /\ lastOp' = [name |-> "update_status",
                          args |-> <<book_id, status>>,
                          ret |-> <<"not found">>]
            /\ write' = "none"
            /\ UNCHANGED <<books, disk, writeFailures>>
    /\ UNCHANGED <<fromEmpty, createCalls, removeCalled>>

-----------------------------------------------------------------------------
(* Persisted documents a Library may be constructed from: records with      *)
(* pairwise distinct ids, in order, out of order and with gaps.             *)

BookA(id, status) == Book(id, <<"A", "b">>, <<"c", "A">>, 2020, status)
BookB(id, status) == Book(id, <<"b">>, <<"B", "a">>, 1999, status)

InitLists ==
    { <<>>,
      <<BookB(2, Available), BookA(1, CheckedOut)>>,
      <<BookA(5, Available), BookB(2, Available)>> }

InitFiles == {NoFile} \cup { SavedFile(bs) : bs \in InitLists }

BookIds == {1, 2}

Init ==
    /\ disk \in InitFiles
    /\ books = load_books(disk)
    /\ lastOp = [name |-> "__init__", args |-> <<>>, ret |-> <<>>]
    /\ write = "none"
    /\ writeFailures = 0
    /\ fromEmpty = (books = <<>>)
    /\ createCalls = 0
    /\ removeCalled = FALSE

AddBook == \E inp \in Inputs : add_book(inp.title, inp.author, inp.year)
RemoveBook == \E book_id \in BookIds : remove_book(book_id)
Search == \E si \in SearchInputs : SearchBooks(si[1], si[2])
Display == display_books
UpdateStatus == \E book_id \in BookIds, status \in Statuses : update_status(book_id, status)

Next == AddBook \/ RemoveBook \/ Search \/ Display \/ UpdateStatus

Spec == Init /\ [][Next]_vars

-----------------------------------------------------------------------------
(* Properties *)

HasId(bs, book_id) == \E i \in 1..Len(bs) : bs[i].id = book_id

IsMutation(name) == name \in {"add_book", "remove_book", "update_status"}

\* C1: in every reachable state of a Library constructed from a document with
\* pairwise distinct ids (or from nothing), the ids of the books in memory are
\* pairwise distinct.
C1_IdsPairwiseDistinct ==
    \A i, j \in 1..Len(books) : i # j => books[i].id # books[j].id

\* C2: after an add_book, remove_book or update_status call whose write
\* succeeded, the file holds the complete current list: loading it yields the
\* in-memory list, field for field and in the same order.
C2_SnapshotRoundTrip ==
    (IsMutation(lastOp.name) /\ write = "ok") =>
        /\ disk.state = "json"
        /\ Len(disk.doc) = Len(books)
        /\ load_books(disk) = books

C2_Witness ==
    /\ lastOp.name = "remove_book"
    /\ write = "ok"
    /\ Len(books) = 2
    /\ books[1].title # books[2].title
    /\ books[1].status = Lost
    /\ load_books(disk) = books

\* C3: add_book(title, author, year) appends exactly one book at the end, with
\* id = last book's id + 1 (1 for an empty list), the given title, author and
\* year and the status "available"; the earlier books are untouched, and a
\* display_books call right after returns the list with the new book last.
C3_CreateAppendsLast ==
    [][/\ lastOp'.name = "add_book" =>
            books' = Append(books,
                [id |-> IF Len(books) > 0 THEN books[Len(books)].id + 1 ELSE 1,
                 title |-> lastOp'.args[1],
                 author |-> lastOp'.args[2],
                 year |-> lastOp'.args[3],
                 status |-> Available])
       /\ (lastOp.name = "add_book" /\ lastOp'.name = "display_books") =>
            LET shown == lastOp'.ret[2]
            IN  /\ Len(shown) > 0
                /\ shown[Len(shown)].title = lastOp.args[1]
                /\ shown[Len(shown)].author = lastOp.args[2]
                /\ shown[Len(shown)].year = lastOp.args[3]
                /\ shown[Len(shown)].status = Available
      ]_vars

C3_Witness ==
    /\ lastOp.name = "add_book"
    /\ Len(books) = 3
    /\ books[1].id = 5
    /\ books[2].id = 2
    /\ books[3].id = 3
    /\ books[3].status = Available
    /\ books[2].status = Lost

\* C4: starting from an empty Library, as long as remove_book has not been
\* called, the n-th add_book call assigns id n (update_status, search_books and
\* display_books calls may come in between).
C4_NthCreateGetsIdN ==
    (fromEmpty /\ ~removeCalled) =>
        /\ Len(books) = createCalls
        /\ \A n \in 1..Len(books) : books[n].id = n
        /\ (lastOp.name = "add_book" /\ write = "ok") => lastOp.ret[3] = createCalls

C4_Witness ==
    /\ fromEmpty
    /\ ~removeCalled
    /\ createCalls = 2
    /\ lastOp.name = "add_book"
    /\ books[1].status = CheckedOut
    /\ books[2].id = 2

\* C5: remove_book(id) when no book has that id returns "not found", leaves the
\* list unchanged and writes nothing; so a remove_book(id) directly after a
\* remove_book(id) changes nothing and returns "not found".
C5_RemoveMissingIsNoOp ==
    [][/\ (lastOp'.name = "remove_book" /\ ~HasId(books, lastOp'.args[1])) =>
            /\ lastOp'.ret = <<"not found">>
            /\ books' = books
            /\ disk' = disk
            /\ write' = "none"
       /\ (lastOp.name = "remove_book" /\ lastOp'.name = "remove_book"
              /\ lastOp'.args = lastOp.args) =>
            /\ lastOp'.ret = <<"not found">>
            /\ books' = books
            /\ disk' = disk
            /\ write' = "none"
      ]_vars

C5_Witness ==
    /\ lastOp.name = "remove_book"
    /\ lastOp.ret = <<"not found">>
    /\ Len(books) = 2
    /\ ~HasId(books, lastOp.args[1])
    /\ removeCalled
    /\ createCalls = 2

\* C6: update_status(id, status) on a list holding a book with that id changes
\* only the status of that book; its other fields, every other book and the
\* length and order of the list stay as they were.  When no book has the id,
\* nothing changes and nothing is written.
C6_UpdateChangesOnlyStatus ==
    [][lastOp'.name = "update_status" =>
          LET book_id == lastOp'.args[1]
              status == lastOp'.args[2]
          IN  IF HasId(books, book_id)
              THEN \E k \in 1..Len(books) :
                      /\ books[k].id = book_id
                      /\ Len(books') = Len(books)
                      /\ books'[k] = [id |-> books[k].id, title |-> books[k].title,
                                      author |-> books[k].author, year |-> books[k].year,
                                      status |-> status]
                      /\ \A i \in 1..Len(books) : i # k => books'[i] = books[i]
              ELSE /\ books' = books
                   /\ disk' = disk
                   /\ write' = "none"
                   /\ lastOp'.ret = <<"not found">>
      ]_vars

C6_Witness ==
    /\ lastOp.name = "update_status"
    /\ lastOp.args = <<2, CheckedOut>>
    /\ Len(books) = 3
    /\ books[1].id = 2
    /\ books[3].id = 2
    /\ books[1].status = CheckedOut
    /\ books[3].status = Available

\* C7: search_books with an empty query returns an empty list, whatever the
\* books and whichever of title, author, year is searched.
C7_EmptyQueryFindsNothing ==
    (lastOp.name = "search_books" /\ lastOp.args[1] = <<>>) =>
        lastOp.ret = <<"results", <<>>>>

(* A text holds q at some position; the positions of the books that do. *)
HasSubstring(text, q) ==
    \E i \in 1..(Len(text) - Len(q) + 1) : SubSeq(text, i, i + Len(q) - 1) = q

FieldAsText(book, field) ==
    IF field = "year" THEN str_int(book.year)
    ELSE IF field = "title" THEN book.title
    ELSE book.author

Hits(bs, query, field) ==
    { i \in 1..Len(bs) : HasSubstring(lower(FieldAsText(bs[i], field)), lower(query)) }

IsSelection(res, bs, idx) ==
    /\ Len(res) = Cardinality(idx)
    /\ \E f \in [1..Len(res) -> idx] :
          /\ \A a, b \in 1..Len(res) : a < b => f[a] < f[b]
          /\ \A a \in 1..Len(res) : res[a] = bs[f[a]]

\* C8: for a non-empty query, search_books returns exactly the books whose
\* field, as text and lower-cased, contains the lower-cased query as a
\* contiguous substring, in list order, and changes neither the list nor the
\* file.
C8_SearchIsSubstringFilter ==
    [][(lastOp'.name = "search_books" /\ lastOp'.args[1] # <<>>) =>
          /\ lastOp'.args[2] \in Fields
          /\ IsSelection(lastOp'.ret[2], books,
                         Hits(books, lastOp'.args[1], lastOp'.args[2]))
          /\ books' = books
          /\ disk' = disk
          /\ write' = "none"
      ]_vars

C8_Witness ==
    /\ lastOp.name = "search_books"
    /\ lastOp.args = << <<"0", "2">>, "year" >>
    /\ Len(books) = 3
    /\ Len(lastOp.ret[2]) = 1
    /\ lastOp.ret[2][1].year = 2020
    /\ \E i \in 1..Len(books) : books[i].year = 1999

\* C9: in every state reached from an empty Library, every book's status is
\* one of the two domain values; update_status rejects any other status
\* instead of storing it in memory or in the file.
C9_StatusStaysInDomain ==
    fromEmpty =>
        /\ \A i \in 1..Len(books) : books[i].status \in StatusDomain
        /\ disk.state = "json" =>
              \A i \in 1..Len(disk.doc) : Member(disk.doc[i], "status") \in StatusDomain

\* C10: when the write fails during add_book, a remove_book that found its
\* book or an update_status that found its book, the caller gets the failure
\* and no success message, and the change in memory stays: the book is
\* appended, removed, or has its new status.
C10_FailedWriteKeepsMutation ==
    [][write' = "failed" =>
          /\ IsMutation(lastOp'.name)
          /\ lastOp'.ret = <<"OSError">>
          /\ lastOp'.name = "add_book" =>
                /\ Len(books') = Len(books) + 1
                /\ SubSeq(books', 1, Len(books)) = books
                /\ books'[Len(books')].title = lastOp'.args[1]
          /\ lastOp'.name = "remove_book" =>
                /\ HasId(books, lastOp'.args[1])
                /\ ~HasId(books', lastOp'.args[1])
                /\ Len(books') < Len(books)
          /\ lastOp'.name = "update_status" =>
                /\ HasId(books, lastOp'.args[1])
                /\ Len(books') = Len(books)
                /\ \E k \in 1..Len(books) :
                      /\ books[k].id = lastOp'.args[1]
                      /\ books'[k].status = lastOp'.args[2]
      ]_vars

C10_Witness ==
    /\ write = "failed"
    /\ lastOp.name = "update_status"
    /\ lastOp.ret = <<"OSError">>
    /\ disk.state = "json"
    /\ Len(books) = 3
    /\ load_books(disk) # books
    /\ \E k \in 1..Len(books) : books[k].status = lastOp.args[2]

====
